---- MODULE Spec2Model ----
(***************************************************************************)
(* A model of the sqlite-rust reader: the varint codec (varint.rs), the    *)
(* serial types and values (types.rs), the database/page/record readers    *)
(* (main.rs) and the query parser (query_parser.rs).                       *)
(*                                                                         *)
(* Bytes are naturals 0..255.  usize/u64 values are kept at their width as *)
(* four 16-bit limbs, most significant first, because the 9-byte varint    *)
(* fills all 64 bits.  A run of the program ends "Ok", "Err" (an           *)
(* anyhow/nom error returned to the caller) or "Panic" (unwrap, todo!,     *)
(* slice index, arithmetic overflow with overflow checks on).              *)
(***************************************************************************)
EXTENDS Integers, Sequences, FiniteSets, TLC

VARIABLES
    overflow_checks, \* build profile: TRUE = debug (overflow panics), FALSE = release (wraps)
    stream,          \* varint.rs: the byte source handed to the codec
    cursor,          \* varint.rs: bytes consumed so far (total_bytes_read / Cursor position)
    varint_out,      \* varint.rs: outcome of the last parse_varint* call
    payloads,        \* build_records: the (payload_size, row_id, payload_bytes) still to decode
    records,         \* build_records: the records built so far
    rec_pc,          \* build_records: position in the function
    row_id,          \* build_records: row id of the payload being decoded
    payload_cursor,  \* build_records: Cursor::new(payload_bytes), as [bytes, pos]
    record_header_byte_count,       \* build_records: first varint of the payload
    record_header_bytes_remaining,  \* build_records: usize counter of the type loop
    column_serial_type,             \* build_records: the serial-type code read last
    serial_types,    \* build_records: types of the record being decoded
    serial_values,   \* build_records: values of the record being decoded
    rec_out,         \* build_records: "Running", or how the call ended
    file,            \* the database file: its length and its nonzero bytes (never written)
    command,         \* main: args.command
    file_pos,        \* the File's read position
    io_log,          \* the reads and seeks made on the File, in order
    db_pc,           \* main / read_records: position in the function
    database,        \* Database { page_size, page_count }
    page,            \* read_records: Page { header } of page 1
    cell_pointers,   \* read_records: the cell pointers of page 1
    built,           \* build_payloads: payloads pushed so far
    page_i,          \* read_records: counter of the loop over pages 2..=page_count
    db_out,          \* how main ended: [kind, why]
    raw_query,       \* parse_query: the text it is called on (and the query it was written from)
    input,           \* parse_query: the unconsumed remainder
    query_pc,        \* parse_query: position in the function
    selection_list,  \* parse_query: result of parse_selection_list
    from_table,      \* parse_query: the table name
    conditions,      \* parse_query: result of opt(parse_where_conditions)
    query_out,       \* parse_query: "Running", "Ok" or "Err"
    thresholds       \* build_payloads: u, p and the x, m, _k computed from them for the last cell

varint_vars == <<stream, cursor, varint_out>>

rec_vars == <<payloads, records, rec_pc, row_id, payload_cursor, record_header_byte_count,
              record_header_bytes_remaining, column_serial_type, serial_types,
              serial_values, rec_out>>

db_vars == <<file, command, file_pos, io_log, db_pc, database, page, cell_pointers, built,
             page_i, db_out>>

query_vars == <<raw_query, input, query_pc, selection_list, from_table, conditions, query_out>>

vars == <<overflow_checks, varint_vars, rec_vars, db_vars, query_vars, thresholds>>

(***************************************************************************)
(* Bounds of the model.                                                    *)
(***************************************************************************)
MaxStream == 9

\* Byte values fed to the codec: a terminator and a continuation byte (the
\* "129, 3" of the codec's tests).
ByteVals == {3, 129}

\* Encodings of the boundary values 0, 127, 128, 16383, 16384, 2^56-1, 2^64-1,
\* and two sources that end inside a varint.
BoundaryStreams ==
    { <<0>>, <<127>>, <<129, 0>>, <<255, 127>>, <<129, 128, 0>>,
      <<255, 255, 255, 255, 255, 255, 255, 127>>,
      <<255, 255, 255, 255, 255, 255, 255, 255, 255>>,
      <<255>>, <<255, 255, 255, 255, 255, 255, 255, 255>> }

(***************************************************************************)
(* Bit and word helpers.                                                   *)
(***************************************************************************)
RECURSIVE Pow2(_)
Pow2(n) == IF n = 0 THEN 1 ELSE 2 * Pow2(n - 1)

\* u8 & u8, bit by bit.
RECURSIVE BitAnd(_, _, _)
BitAnd(a, b, nbits) ==
    IF nbits = 0 THEN 0
    ELSE (a % 2) * (b % 2) + 2 * BitAnd(a \div 2, b \div 2, nbits - 1)

LimbBase == Pow2(16)

U64Zero == <<0, 0, 0, 0>>

\* n as usize, for 0 <= n < 2^31.
U64FromNat(n) == <<0, 0, n \div LimbBase, n % LimbBase>>

\* value << k on a 64-bit word, 0 < k < 16: bits shifted past bit 63 are lost.
U64Shl(v, k) ==
    [i \in 1..4 |->
        ((v[i] * Pow2(k)) % LimbBase)
        + (IF i < 4 THEN v[i + 1] \div Pow2(16 - k) ELSE 0)]

\* a + b on 64-bit words: the wrapped sum and whether it overflowed.
U64Add(a, b) ==
    LET s4 == a[4] + b[4]
        s3 == a[3] + b[3] + (s4 \div LimbBase)
        s2 == a[2] + b[2] + (s3 \div LimbBase)
        s1 == a[1] + b[1] + (s2 \div LimbBase)
    IN  [val |-> <<s1 % LimbBase, s2 % LimbBase, s3 % LimbBase, s4 % LimbBase>>,
         overflow |-> s1 >= LimbBase]

\* a - b on 64-bit words: the wrapped difference and whether it went below zero.
U64Sub(a, b) ==
    LET d4 == a[4] - b[4]
        d3 == a[3] - b[3] - (IF d4 < 0 THEN 1 ELSE 0)
        d2 == a[2] - b[2] - (IF d3 < 0 THEN 1 ELSE 0)
        d1 == a[1] - b[1] - (IF d2 < 0 THEN 1 ELSE 0)
    IN  [val |-> <<d1 % LimbBase, d2 % LimbBase, d3 % LimbBase, d4 % LimbBase>>,
         overflow |-> d1 < 0]

\* The 64 bits of a word, most significant first.
RECURSIVE BitsOf(_, _)
BitsOf(n, nbits) ==
    IF nbits = 0 THEN <<>> ELSE Append(BitsOf(n \div 2, nbits - 1), n % 2)

U64Bits(v) == BitsOf(v[1], 16) \o BitsOf(v[2], 16) \o BitsOf(v[3], 16) \o BitsOf(v[4], 16)

(***************************************************************************)
(* varint.rs                                                               *)
(***************************************************************************)
IS_FIRST_BIT_ZERO_MASK == 128
LAST_SEVEN_BITS_MASK == 127

starts_with_zero(byte) == BitAnd(byte, IS_FIRST_BIT_ZERO_MASK, 8) = 0

\* Usable size is either 8 or 7.
usable_value(usable_size, byte) ==
    IF usable_size = 8 THEN usable_size ELSE BitAnd(byte, LAST_SEVEN_BITS_MASK, 8)

\* for i in 0..9 { let byte = stream[i]; push; if starts_with_zero { break } }
\* Indexing past the end of the slice panics.
RECURSIVE read_usable_loop(_, _, _)
read_usable_loop(bytes, i, usable_bytes) ==
    IF i >= 9 THEN [panic |-> FALSE, usable_bytes |-> usable_bytes]
    ELSE IF i + 1 > Len(bytes) THEN [panic |-> TRUE, usable_bytes |-> usable_bytes]
    ELSE LET byte == bytes[i + 1] IN
         IF starts_with_zero(byte)
         THEN [panic |-> FALSE, usable_bytes |-> Append(usable_bytes, byte)]
         ELSE read_usable_loop(bytes, i + 1, Append(usable_bytes, byte))

read_usable_bytes(slice) == read_usable_loop(slice, 0, <<>>)

\* The reader variant: read_exact(..).unwrap() panics at the end of the source.
\* `rest` is what the reader still holds after its position.
read_usable_bytes_from_reader(rest) == read_usable_loop(rest, 0, <<>>)

\* fold(0, |value, (i, b)| (value << usable_size) + usable_value(usable_size, b))
RECURSIVE varint_fold(_, _, _)
varint_fold(usable_bytes, i, value) ==
    IF i >= Len(usable_bytes) THEN value
    ELSE LET usable_size == IF i = 8 THEN 8 ELSE 7
             next == U64Add(U64Shl(value, usable_size),
                            U64FromNat(usable_value(usable_size, usable_bytes[i + 1]))).val
         IN  varint_fold(usable_bytes, i + 1, next)

VarintResult(r) ==
    IF r.panic
    THEN [kind |-> "Panic", value |-> U64Zero, bytes_read |-> 0]
    ELSE [kind |-> "Ok", value |-> varint_fold(r.usable_bytes, 0, U64Zero),
          bytes_read |-> Len(r.usable_bytes)]

parse_varint(slice) == VarintResult(read_usable_bytes(slice))

parse_varint_from_reader(rest) == VarintResult(read_usable_bytes_from_reader(rest))

\* No call of the codec yet.
NoVarint == [api |-> "none", kind |-> "none", value |-> U64Zero, bytes_read |-> 0, at |-> 0]

VarintIdle ==
    /\ stream = <<>>
    /\ cursor = 0
    /\ varint_out = NoVarint

\* bytes[from..]
SliceFrom(bytes, from) == SubSeq(bytes, from + 1, Len(bytes))

(***************************************************************************)
(* types.rs                                                                *)
(***************************************************************************)
\* usize/u64 -> a natural of the model; the modelled sources declare sizes
\* below 2^31 only.
U64ToNat(v) == v[3] * LimbBase + v[4]

U64IsSmall(v) == v[1] = 0 /\ v[2] = 0 /\ v[3] < 32768

\* v / 2
U64Half(v) ==
    [i \in 1..4 |-> (v[i] \div 2) + (IF i > 1 THEN (v[i - 1] % 2) * 32768 ELSE 0)]

Plain(tag) == [panic |-> FALSE, tag |-> tag, size |-> U64Zero]

\* The mutation of SerialType::from used to test C3: the parity test inverted.
SerialType_from_parity_swapped(raw_serial_type) ==
    IF U64IsSmall(raw_serial_type) /\ U64ToNat(raw_serial_type) <= 9
    THEN Plain(<<"Null", "Int8", "Int16", "Int24", "Int32", "Int48", "Int64",
                 "Float", "Zero", "One">>[U64ToNat(raw_serial_type) + 1])
    ELSE IF U64IsSmall(raw_serial_type) /\ U64ToNat(raw_serial_type) \in {10, 11}
    THEN [panic |-> TRUE, tag |-> "todo", size |-> U64Zero]
    ELSE IF raw_serial_type[4] % 2 = 1
    THEN [panic |-> FALSE, tag |-> "Blob",
          size |-> U64Half(U64Sub(raw_serial_type, U64FromNat(12)).val)]
    ELSE [panic |-> FALSE, tag |-> "String",
          size |-> U64Half(U64Sub(raw_serial_type, U64FromNat(13)).val)]

\* SerialType::from(raw_serial_type: u64); 10 | 11 => todo!() panics.
SerialType_from(raw_serial_type) ==
    LET small == U64IsSmall(raw_serial_type)
        n == U64ToNat(raw_serial_type)
    IN  CASE small /\ n = 0 -> Plain("Null")
          [] small /\ n = 1 -> Plain("Int8")
          [] small /\ n = 2 -> Plain("Int16")
          [] small /\ n = 3 -> Plain("Int24")
          [] small /\ n = 4 -> Plain("Int32")
          [] small /\ n = 5 -> Plain("Int48")
          [] small /\ n = 6 -> Plain("Int64")
          [] small /\ n = 7 -> Plain("Float")
          [] small /\ n = 8 -> Plain("Zero")
          [] small /\ n = 9 -> Plain("One")
          [] small /\ n \in {10, 11} -> [panic |-> TRUE, tag |-> "todo", size |-> U64Zero]
          [] OTHER ->
               IF raw_serial_type[4] % 2 = 0
               THEN [panic |-> FALSE, tag |-> "Blob",
                     size |-> U64Half(U64Sub(raw_serial_type, U64FromNat(12)).val)]
               ELSE [panic |-> FALSE, tag |-> "String",
                     size |-> U64Half(U64Sub(raw_serial_type, U64FromNat(13)).val)]

\* String::from_utf8: whether bytes[i..] is well-formed UTF-8.
IsCont(b) == b >= 128 /\ b <= 191

RECURSIVE utf8_valid(_, _)
utf8_valid(bytes, i) ==
    IF i > Len(bytes) THEN TRUE
    ELSE LET b == bytes[i]
             has(k) == i + k <= Len(bytes)
         IN  IF b < 128 THEN utf8_valid(bytes, i + 1)
             ELSE IF b >= 194 /\ b <= 223
             THEN has(1) /\ IsCont(bytes[i + 1]) /\ utf8_valid(bytes, i + 2)
             ELSE IF b >= 224 /\ b <= 239
             THEN /\ has(2)
                  /\ IsCont(bytes[i + 1]) /\ IsCont(bytes[i + 2])
                  /\ (b = 224 => bytes[i + 1] >= 160)
                  /\ (b = 237 => bytes[i + 1] <= 159)
                  /\ utf8_valid(bytes, i + 3)
             ELSE IF b >= 240 /\ b <= 244
             THEN /\ has(3)
                  /\ IsCont(bytes[i + 1]) /\ IsCont(bytes[i + 2]) /\ IsCont(bytes[i + 3])
                  /\ (b = 240 => bytes[i + 1] >= 144)
                  /\ (b = 244 => bytes[i + 1] <= 143)
                  /\ utf8_valid(bytes, i + 4)
             ELSE FALSE

\* Bytes a value of the type occupies in the record body.
FieldWidth(serial_type) ==
    CASE serial_type.tag = "Int8" -> 1
      [] serial_type.tag = "Int16" -> 2
      [] serial_type.tag = "Int24" -> 3
      [] serial_type.tag = "Int32" -> 4
      [] serial_type.tag = "Int48" -> 6
      [] serial_type.tag \in {"Int64", "Float"} -> 8
      [] serial_type.tag \in {"Blob", "String"} -> U64ToNat(serial_type.size)
      [] OTHER -> 0

\* An integer or float value is kept as the big-endian bytes of its Rust type
\* (i8: 1, i16: 2, i32: 4, i64/f64: 8): iN::from_be_bytes(buf) is the number
\* with that two's-complement representation.
from_be_bytes(tag, buf) ==
    CASE tag = "Int24" -> <<0>> \o buf
      [] tag = "Int48" -> <<0, 0>> \o buf
      [] OTHER -> buf

\* SerialValue::parse(reader, serial_type): read_exact(..)? returns Err on a
\* short source, String::from_utf8(buf)? on malformed text.
SerialValue_parse(reader, serial_type) ==
    LET w == FieldWidth(serial_type)
        buf == SubSeq(reader.bytes, reader.pos + 1, reader.pos + w)
    IN  IF reader.pos + w > Len(reader.bytes)
        THEN [kind |-> "Err", value |-> [tag |-> serial_type.tag, bytes |-> <<>>], pos |-> reader.pos]
        ELSE IF serial_type.tag = "String" /\ ~utf8_valid(buf, 1)
        THEN [kind |-> "Err", value |-> [tag |-> serial_type.tag, bytes |-> <<>>], pos |-> reader.pos + w]
        ELSE [kind |-> "Ok",
              value |-> [tag |-> serial_type.tag, bytes |-> from_be_bytes(serial_type.tag, buf)],
              pos |-> reader.pos + w]

(***************************************************************************)
(* The database file.  A file is its length and its nonzero bytes, given   *)
(* as segments [at, bytes]; every other byte below the length is zero.     *)
(***************************************************************************)
NoFile == [len |-> 0, segs |-> <<>>, tree |-> [kind |-> "none"]]

Running == [kind |-> "Running", why |-> ""]

NoDatabase == [page_size |-> 0, page_count |-> 0]

NoPage == [page_type |-> "none", number_of_cells |-> 0]

DbIdle ==
    /\ file = NoFile
    /\ command = ""
    /\ file_pos = 0
    /\ io_log = <<>>
    /\ db_pc = "idle"
    /\ database = NoDatabase
    /\ page = NoPage
    /\ cell_pointers = <<>>
    /\ built = <<>>
    /\ page_i = 0
    /\ db_out = Running

\* The byte of file f at offset off < f.len.
FileByte(f, off) ==
    IF \E k \in 1..Len(f.segs) :
           f.segs[k].at <= off /\ off < f.segs[k].at + Len(f.segs[k].bytes)
    THEN LET k == CHOOSE k \in 1..Len(f.segs) :
                      f.segs[k].at <= off /\ off < f.segs[k].at + Len(f.segs[k].bytes)
         IN  f.segs[k].bytes[off - f.segs[k].at + 1]
    ELSE 0

\* The bytes a reader at `pos` still has, at most n of them.
FileRest(f, pos, n) ==
    LET m == IF pos >= f.len THEN 0 ELSE IF pos + n > f.len THEN f.len - pos ELSE n
    IN  [i \in 1..m |-> FileByte(f, pos + i - 1)]

\* read_exact(&mut [0; n]) at pos: the bytes, or a short read.
read_exact(f, pos, n) ==
    IF pos + n > f.len
    THEN [ok |-> FALSE, bytes |-> <<>>]
    ELSE [ok |-> TRUE, bytes |-> [i \in 1..n |-> FileByte(f, pos + i - 1)]]

\* u16::from_be_bytes / u32::from_be_bytes of small values.
be_u16(b) == b[1] * 256 + b[2]

(***************************************************************************)
(* main.rs: build_records, one action per loop iteration.                  *)
(***************************************************************************)
NoCursor == [bytes |-> <<>>, pos |-> 0]

RecIdle ==
    /\ payloads = <<>>
    /\ records = <<>>
    /\ rec_pc = "idle"
    /\ row_id = U64Zero
    /\ payload_cursor = NoCursor
    /\ record_header_byte_count = U64Zero
    /\ record_header_bytes_remaining = U64Zero
    /\ column_serial_type = U64Zero
    /\ serial_types = <<>>
    /\ serial_values = <<>>
    /\ rec_out = "Idle"

ReaderRest(reader) == SliceFrom(reader.bytes, reader.pos)

RecEnd(out) ==
    /\ rec_pc' = "done"
    /\ rec_out' = out

\* let mut records = vec![]; entered by the caller of build_records.
RecStart(list) ==
    /\ payloads' = list
    /\ records' = <<>>
    /\ rec_pc' = "for"
    /\ row_id' = U64Zero
    /\ payload_cursor' = NoCursor
    /\ record_header_byte_count' = U64Zero
    /\ record_header_bytes_remaining' = U64Zero
    /\ column_serial_type' = U64Zero
    /\ serial_types' = <<>>
    /\ serial_values' = <<>>
    /\ rec_out' = "Running"

\* for (_payload_size, row_id, payload_bytes) in payloads { cursor, empty vecs }
\* and, once the payloads are used up, Ok(records).
RecFor ==
    /\ rec_pc = "for"
    /\ IF payloads = <<>>
       THEN /\ RecEnd("Ok")
            /\ UNCHANGED <<payloads, row_id, payload_cursor, serial_types, serial_values>>
       ELSE /\ payloads' = Tail(payloads)
            /\ row_id' = Head(payloads).row_id
            /\ payload_cursor' = [bytes |-> Head(payloads).payload_bytes, pos |-> 0]
            /\ serial_types' = <<>>
            /\ serial_values' = <<>>
            /\ rec_pc' = "header"
            /\ UNCHANGED rec_out
    /\ UNCHANGED <<overflow_checks, thresholds, query_vars, varint_vars, db_vars, records, record_header_byte_count,
                   record_header_bytes_remaining, column_serial_type>>

\* let (record_header_byte_count, bytes_read_3) = parse_varint_from_reader(..);
\* let mut record_header_bytes_remaining = record_header_byte_count - bytes_read_3;
RecHeaderLen ==
    /\ rec_pc = "header"
    /\ LET v == parse_varint_from_reader(ReaderRest(payload_cursor))
           d == U64Sub(v.value, U64FromNat(v.bytes_read))
       IN  IF v.kind = "Panic" \/ (d.overflow /\ overflow_checks)
           THEN /\ RecEnd("Panic")
                /\ UNCHANGED <<payload_cursor, record_header_byte_count,
                               record_header_bytes_remaining>>
           ELSE /\ payload_cursor' = [payload_cursor EXCEPT !.pos = @ + v.bytes_read]
                /\ record_header_byte_count' = v.value
                /\ record_header_bytes_remaining' = d.val
                /\ rec_pc' = "types"
                /\ UNCHANGED rec_out
    /\ UNCHANGED <<overflow_checks, thresholds, query_vars, varint_vars, db_vars, payloads, records, row_id,
                   column_serial_type, serial_types, serial_values>>

\* One iteration of the serial-type loop: read a varint, SerialType::from,
\* push, record_header_bytes_remaining -= col_type_bytes_read, break on 0.
RecSerialType ==
    /\ rec_pc = "types"
    /\ LET v == parse_varint_from_reader(ReaderRest(payload_cursor))
           t == SerialType_from(v.value)
           d == U64Sub(record_header_bytes_remaining, U64FromNat(v.bytes_read))
       IN  IF v.kind = "Panic"
           THEN /\ RecEnd("Panic")
                /\ UNCHANGED <<payload_cursor, column_serial_type, serial_types,
                               record_header_bytes_remaining>>
           ELSE IF t.panic
           THEN /\ RecEnd("Panic")
                /\ payload_cursor' = [payload_cursor EXCEPT !.pos = @ + v.bytes_read]
                /\ column_serial_type' = v.value
                /\ UNCHANGED <<serial_types, record_header_bytes_remaining>>
           ELSE IF d.overflow /\ overflow_checks
           THEN /\ RecEnd("Panic")
                /\ payload_cursor' = [payload_cursor EXCEPT !.pos = @ + v.bytes_read]
                /\ column_serial_type' = v.value
                /\ serial_types' = Append(serial_types, [tag |-> t.tag, size |-> t.size])
                /\ UNCHANGED record_header_bytes_remaining
           ELSE /\ payload_cursor' = [payload_cursor EXCEPT !.pos = @ + v.bytes_read]
                /\ column_serial_type' = v.value
                /\ serial_types' = Append(serial_types, [tag |-> t.tag, size |-> t.size])
                /\ record_header_bytes_remaining' = d.val
                /\ rec_pc' = IF d.val = U64Zero THEN "values" ELSE "types"
                /\ UNCHANGED rec_out
    /\ UNCHANGED <<overflow_checks, thresholds, query_vars, varint_vars, db_vars, payloads, records, row_id,
                   record_header_byte_count, serial_values>>

\* One iteration of the value loop: SerialValue::parse(..)? and push; after the
\* last type, records.push(Record { row_id, serial_types, serial_values }).
RecValue ==
    /\ rec_pc = "values"
    /\ IF Len(serial_values) = Len(serial_types)
       THEN /\ records' = Append(records, [row_id |-> row_id, serial_types |-> serial_types,
                                           serial_values |-> serial_values])
            /\ rec_pc' = "for"
            /\ UNCHANGED <<payload_cursor, serial_values, rec_out>>
       ELSE LET r == SerialValue_parse(payload_cursor, serial_types[Len(serial_values) + 1])
            IN  /\ payload_cursor' = [payload_cursor EXCEPT !.pos = r.pos]
                /\ IF r.kind = "Err"
                   THEN RecEnd("Err") /\ UNCHANGED serial_values
                   ELSE /\ serial_values' = Append(serial_values, r.value)
                        /\ UNCHANGED <<rec_pc, rec_out>>
                /\ UNCHANGED records
    /\ UNCHANGED <<overflow_checks, thresholds, query_vars, varint_vars, db_vars, payloads, row_id,
                   record_header_byte_count, record_header_bytes_remaining,
                   column_serial_type, serial_types>>

(***************************************************************************)
(* u32 arithmetic of build_payloads, on two 16-bit limbs <<hi, lo>>.  Each *)
(* operation gives the wrapped value and whether it left the u32 range     *)
(* (a panic with overflow checks on).                                      *)
(***************************************************************************)
U32FromNat(n) == <<n \div LimbBase, n % LimbBase>>

\* usize as u32: the low 32 bits.
U64AsU32(v) == <<v[3], v[4]>>

U32Sub(a, b) ==
    LET lo == a[2] - b[2]
        hi == a[1] - b[1] - (IF lo < 0 THEN 1 ELSE 0)
    IN  [val |-> <<hi % LimbBase, lo % LimbBase>>, overflow |-> hi < 0]

U32Add(a, b) ==
    LET lo == a[2] + b[2]
        hi == a[1] + b[1] + (lo \div LimbBase)
    IN  [val |-> <<hi % LimbBase, lo % LimbBase>>, overflow |-> hi >= LimbBase]

\* a * k for a small constant k.
U32MulSmall(a, k) ==
    LET lo == a[2] * k
        hi == a[1] * k + (lo \div LimbBase)
    IN  [val |-> <<hi % LimbBase, lo % LimbBase>>, overflow |-> hi >= LimbBase]

\* a / d for a small constant d.
U32DivSmall(a, d) ==
    LET rest == (a[1] % d) * LimbBase + a[2]
    IN  <<a[1] \div d, rest \div d>>

\* (r * 2^k) mod d without leaving 32 bits.
RECURSIVE ShlMod(_, _, _)
ShlMod(r, k, d) == IF k = 0 THEN r ELSE ShlMod((2 * r) % d, k - 1, d)

\* a % d for a divisor 0 < d < 2^17, as a natural.
U32Mod(a, d) == (ShlMod(a[1] % d, 16, d) + (a[2] % d)) % d

U32Gt(a, b) == a[1] > b[1] \/ (a[1] = b[1] /\ a[2] > b[2])

(***************************************************************************)
(* main.rs: Database, Page, read_records, build_payloads.                  *)
(***************************************************************************)
Ended(kind, why) == [kind |-> kind, why |-> why]

IoRead(at, n) == [op |-> "read", at |-> at, len |-> n]

IoSeek(at) == [op |-> "seek", at |-> at, len |-> 0]

be_u32(b) == ((b[1] * 256 + b[2]) * 256 + b[3]) * 256 + b[4]

\* The mutation of Database::open used to test C7: the reserved-space test dropped.
Database_open_unchecked(f) ==
    LET r == read_exact(f, 0, 100)
        raw == be_u16(SubSeq(r.bytes, 17, 18))
    IN  IF ~r.ok THEN [kind |-> "Err", why |-> "io", database |-> NoDatabase]
        ELSE [kind |-> "Ok", why |-> "",
              database |-> [page_size |-> IF raw = 1 THEN 65536 ELSE raw,
                            page_count |-> be_u32(SubSeq(r.bytes, 29, 32))]]

\* Database::open(database_file): the result of the function; its one read
\* of the file is logged by the action.
Database_open(f) ==
    LET header == read_exact(f, 0, 100)
        page_size == be_u16(SubSeq(header.bytes, 17, 18))
        reserved_end_of_page_space == header.bytes[21]
        page_count == be_u32(SubSeq(header.bytes, 29, 32))
    IN  IF ~header.ok THEN [kind |-> "Err", why |-> "io", database |-> NoDatabase]
        ELSE IF reserved_end_of_page_space > 0
        THEN [kind |-> "Err", why |-> "Unhandled reserved_end_of_page_space",
              database |-> NoDatabase]
        ELSE [kind |-> "Ok", why |-> "",
              database |-> [page_size |-> IF page_size = 1 THEN 65536 ELSE page_size,
                            page_count |-> page_count]]

\* PageHeader::parse(&page_header_bytes): the page-type tag, the cell count.
PageHeader_parse(b) ==
    LET t == CASE b[1] = 2 -> "InteriorIndex"
               [] b[1] = 5 -> "InteriorTable"
               [] b[1] = 10 -> "LeafIndex"
               [] b[1] = 13 -> "LeafTable"
               [] OTHER -> "unknown"
    IN  [ok |-> t # "unknown",
         header |-> [page_type |-> t, number_of_cells |-> be_u16(SubSeq(b, 4, 5))]]

\* Database::seek_to_page(page_num): the result, the position the file is
\* left at and the file operations made.
seek_to_page(db, f, page_num) ==
    LET seek_offset == (page_num - 1) * db.page_size + (IF page_num = 1 THEN 100 ELSE 0)
        bytes == read_exact(f, seek_offset, 8)
        parsed == PageHeader_parse(bytes.bytes)
    IN  IF page_num < 1 \/ page_num > db.page_count
        THEN [kind |-> "Err", why |-> "seek_to_page: page_num out of bounds",
              page |-> NoPage, pos |-> -1, ops |-> <<>>]
        ELSE IF ~bytes.ok
        THEN [kind |-> "Err", why |-> "io", page |-> NoPage, pos |-> seek_offset,
              ops |-> <<IoSeek(seek_offset), IoRead(seek_offset, 8)>>]
        ELSE IF ~parsed.ok
        THEN [kind |-> "Err", why |-> "page type", page |-> NoPage, pos |-> seek_offset + 8,
              ops |-> <<IoSeek(seek_offset), IoRead(seek_offset, 8)>>]
        ELSE [kind |-> "Ok", why |-> "", page |-> parsed.header, pos |-> seek_offset + 8,
              ops |-> <<IoSeek(seek_offset), IoRead(seek_offset, 8)>>]

\* Page::build_cell_pointers: number_of_cells reads of a big-endian u16.
RECURSIVE build_cell_pointers(_, _, _, _)
build_cell_pointers(f, pos, n, acc) ==
    IF n = 0 THEN [ok |-> TRUE, cell_pointers |-> acc, pos |-> pos]
    ELSE LET r == read_exact(f, pos, 2) IN
         IF ~r.ok THEN [ok |-> FALSE, cell_pointers |-> acc, pos |-> pos]
         ELSE build_cell_pointers(f, pos + 2, n - 1, Append(acc, be_u16(r.bytes)))

\* The overflow arithmetic of build_payloads for page size u and payload
\* size p: x = u - 35; m = ((u - 12) * 32 / 255) - 23; k = m + ((p - m) % (u - 4)).
\* `panics` is whether it panics: always on a zero divisor, and on any
\* out-of-range result when overflow checks are on.
overflow_thresholds(u, p, checks) ==
    LET x == U32Sub(u, U32FromNat(35))
        u12 == U32Sub(u, U32FromNat(12))
        t32 == U32MulSmall(u12.val, 32)
        m == U32Sub(U32DivSmall(t32.val, 255), U32FromNat(23))
        pm == U32Sub(p, m.val)
        u4 == U32Sub(u, U32FromNat(4))
        d == u4.val[1] * LimbBase + u4.val[2]
        rem == IF d = 0 THEN 0 ELSE U32Mod(pm.val, d)
        k == U32Add(m.val, U32FromNat(rem))
    IN  [x |-> x.val, m |-> m.val, k |-> k.val,
         wrapped |-> x.overflow \/ u12.overflow \/ t32.overflow \/ m.overflow
                     \/ pm.overflow \/ u4.overflow \/ k.overflow,
         panics |-> d = 0 \/ (checks /\ (x.overflow \/ u12.overflow \/ t32.overflow
                                         \/ m.overflow \/ pm.overflow \/ u4.overflow
                                         \/ k.overflow))]

NoThresholds ==
    [pc |-> "idle", u |-> <<0, 0>>, p |-> <<0, 0>>, x |-> <<0, 0>>, m |-> <<0, 0>>,
     k |-> <<0, 0>>, wrapped |-> FALSE, out |-> "Idle"]

\* The locals of build_payloads after `let _k = ..`: out is "Panic" when
\* the arithmetic panicked on the way.
Computed(u, p, checks) ==
    [pc |-> "done", u |-> u, p |-> p,
     x |-> overflow_thresholds(u, p, checks).x,
     m |-> overflow_thresholds(u, p, checks).m,
     k |-> overflow_thresholds(u, p, checks).k,
     wrapped |-> overflow_thresholds(u, p, checks).wrapped,
     out |-> IF overflow_thresholds(u, p, checks).panics THEN "Panic" ELSE "Ok"]

\* let p = payload_size as u32, for the cell at `offset`.
payload_size_u32(f, offset) == U64AsU32(parse_varint_from_reader(FileRest(f, offset, 9)).value)

\* One iteration of build_payloads' loop over the cell pointers: seek to the
\* pointer, two varints, the payload bytes, the overflow arithmetic.
build_payload(f, page_size, offset, checks) ==
    LET v1 == parse_varint_from_reader(FileRest(f, offset, 9))
        at2 == offset + v1.bytes_read
        v2 == parse_varint_from_reader(FileRest(f, at2, 9))
        at3 == at2 + v2.bytes_read
        payload_size == U64ToNat(v1.value)
        payload_bytes == read_exact(f, at3, payload_size)
        t == overflow_thresholds(U32FromNat(page_size), U64AsU32(v1.value), checks)
    IN  IF v1.kind = "Panic"
        THEN [kind |-> "Panic", why |-> "unwrap", pos |-> offset, payload |-> <<>>,
              ops |-> <<IoSeek(offset)>>]
        ELSE IF v2.kind = "Panic"
        THEN [kind |-> "Panic", why |-> "unwrap", pos |-> at2, payload |-> <<>>,
              ops |-> <<IoSeek(offset), IoRead(offset, v1.bytes_read)>>]
        ELSE IF ~payload_bytes.ok
        THEN [kind |-> "Err", why |-> "io", pos |-> at3, payload |-> <<>>,
              ops |-> <<IoSeek(offset), IoRead(offset, v1.bytes_read),
                        IoRead(at2, v2.bytes_read), IoRead(at3, payload_size)>>]
        ELSE IF t.panics
        THEN [kind |-> "Panic", why |-> "arithmetic overflow", pos |-> at3 + payload_size,
              payload |-> <<>>,
              ops |-> <<IoSeek(offset), IoRead(offset, v1.bytes_read),
                        IoRead(at2, v2.bytes_read), IoRead(at3, payload_size)>>]
        ELSE IF U32Gt(U64AsU32(v1.value), t.x)
        THEN [kind |-> "Err", why |-> "Unhandled overflow", pos |-> at3 + payload_size,
              payload |-> <<>>,
              ops |-> <<IoSeek(offset), IoRead(offset, v1.bytes_read),
                        IoRead(at2, v2.bytes_read), IoRead(at3, payload_size)>>]
        ELSE [kind |-> "Ok", why |-> "", pos |-> at3 + payload_size,
              payload |-> <<[payload_size |-> payload_size, row_id |-> v2.value,
                             payload_bytes |-> payload_bytes.bytes]>>,
              ops |-> <<IoSeek(offset), IoRead(offset, v1.bytes_read),
                        IoRead(at2, v2.bytes_read), IoRead(at3, payload_size)>>]

\* get_table_names(&records): serial_values[1] of every record must be a String.
get_table_names(recs) ==
    IF \A i \in 1..Len(recs) :
           Len(recs[i].serial_values) >= 2 /\ recs[i].serial_values[2].tag = "String"
    THEN Ended("Ok", "")
    ELSE Ended("Panic", "reading root page table name failed")

DbEnd(out) ==
    /\ db_pc' = "done"
    /\ db_out' = out

\* main: Database::open(db_file)?, then the dispatch on the command.
Open ==
    /\ db_pc = "open"
    /\ LET r == Database_open(file) IN
       /\ io_log' = Append(io_log, IoRead(0, 100))
       /\ file_pos' = IF r.kind = "Err" /\ r.why = "io" THEN file.len ELSE 100
       /\ database' = r.database
       /\ IF r.kind = "Ok"
          THEN db_pc' = "seek" /\ UNCHANGED db_out
          ELSE DbEnd(Ended(r.kind, r.why))
    /\ UNCHANGED <<overflow_checks, thresholds, query_vars, varint_vars, rec_vars, file, command, page,
                   cell_pointers, built, page_i>>

\* read_records: let page = database.seek_to_page(1)?;
SeekRootPage ==
    /\ db_pc = "seek"
    /\ LET r == seek_to_page(database, file, 1) IN
       /\ io_log' = io_log \o r.ops
       /\ file_pos' = IF r.pos < 0 THEN file_pos ELSE r.pos
       /\ page' = r.page
       /\ IF r.kind = "Ok"
          THEN db_pc' = "cells" /\ UNCHANGED db_out
          ELSE DbEnd(Ended(r.kind, r.why))
    /\ UNCHANGED <<overflow_checks, thresholds, query_vars, varint_vars, rec_vars, file, command, database,
                   cell_pointers, built, page_i>>

\* read_records: let cell_pointers = page.fetch_cell_pointers(&mut file)?;
FetchCellPointers ==
    /\ db_pc = "cells"
    /\ LET r == build_cell_pointers(file, file_pos, page.number_of_cells, <<>>) IN
       /\ io_log' = io_log \o [i \in 1..((r.pos - file_pos) \div 2 + (IF r.ok THEN 0 ELSE 1))
                                 |-> IoRead(file_pos + 2 * (i - 1), 2)]
       /\ file_pos' = r.pos
       /\ cell_pointers' = r.cell_pointers
       /\ IF r.ok
          THEN db_pc' = "payloads" /\ UNCHANGED db_out
          ELSE DbEnd(Ended("Err", "io"))
    /\ UNCHANGED <<overflow_checks, thresholds, query_vars, varint_vars, rec_vars, file, command, database, page,
                   built, page_i>>

\* build_payloads: the match on the page type (todo!() for any type but
\* LeafTable), one iteration of the loop over the cell pointers, and
\* Ok(payloads) after the last.
BuildPayloads ==
    /\ db_pc = "payloads"
    /\ IF page.page_type # "LeafTable"
       THEN /\ DbEnd(Ended("Panic", "todo: handle other page types in build_payloads"))
            /\ UNCHANGED <<io_log, file_pos, built, page_i, thresholds>>
       ELSE IF Len(built) = Len(cell_pointers)
       THEN /\ db_pc' = "pages"
            /\ page_i' = 2
            /\ UNCHANGED <<io_log, file_pos, built, db_out, thresholds>>
       ELSE LET r == build_payload(file, database.page_size,
                                   cell_pointers[Len(built) + 1], overflow_checks)
            IN  /\ io_log' = io_log \o r.ops
                /\ file_pos' = r.pos
                /\ built' = built \o r.payload
                /\ IF r.kind = "Ok"
                   THEN UNCHANGED <<db_pc, db_out>>
                   ELSE DbEnd(Ended(r.kind, r.why))
                /\ thresholds' =
                       IF r.kind = "Ok" \/ r.why \in {"arithmetic overflow", "Unhandled overflow"}
                       THEN Computed(U32FromNat(database.page_size),
                                     payload_size_u32(file, cell_pointers[Len(built) + 1]),
                                     overflow_checks)
                       ELSE thresholds
                /\ UNCHANGED page_i
    /\ UNCHANGED <<overflow_checks, query_vars, varint_vars, rec_vars, file, command, database, page,
                   cell_pointers>>

\* read_records: for page_i in 2..=page_count { seek_to_page(page_i)?; println },
\* then the match on the type of page 1 and the call of build_records.
SeekNextPage ==
    /\ db_pc = "pages"
    /\ IF page_i <= database.page_count
       THEN LET r == seek_to_page(database, file, page_i) IN
            /\ io_log' = io_log \o r.ops
            /\ file_pos' = IF r.pos < 0 THEN file_pos ELSE r.pos
            /\ IF r.kind = "Ok"
               THEN page_i' = page_i + 1 /\ UNCHANGED <<db_pc, db_out>>
               ELSE DbEnd(Ended(r.kind, r.why)) /\ UNCHANGED page_i
            /\ UNCHANGED rec_vars
       ELSE /\ UNCHANGED <<io_log, file_pos, page_i>>
            /\ IF page.page_type = "LeafTable"
               THEN /\ RecStart(built)
                    /\ db_pc' = "records"
                    /\ UNCHANGED db_out
               ELSE /\ DbEnd(Ended("Panic", "todo: handle other page types in read_records"))
                    /\ UNCHANGED rec_vars
    /\ UNCHANGED <<overflow_checks, thresholds, query_vars, varint_vars, file, command, database, page,
                   cell_pointers, built>>

\* read_records returns what build_records returned; main prints the page
\* size and record count (.dbinfo) or the table names (.tables).
ReadRecordsReturn ==
    /\ db_pc = "records"
    /\ rec_pc = "done"
    /\ DbEnd(IF rec_out # "Ok" THEN Ended(rec_out, "build_records")
             ELSE IF command = ".tables" THEN get_table_names(records)
             ELSE Ended("Ok", ""))
    /\ UNCHANGED <<overflow_checks, thresholds, query_vars, varint_vars, rec_vars, file, command, file_pos, io_log,
                   database, page, cell_pointers, built, page_i>>

(***************************************************************************)
(* query_parser.rs.  A &str is a sequence of one-character strings.  Every *)
(* parser returns [ok, rest, out]: whether it matched, the input left, and *)
(* what it produced; ok = FALSE is nom's Err(Err::Error(..)).              *)
(***************************************************************************)
UPPER == <<"A", "B", "C", "D", "E", "F", "G", "H", "I", "J", "K", "L", "M",
           "N", "O", "P", "Q", "R", "S", "T", "U", "V", "W", "X", "Y", "Z">>

LOWER == <<"a", "b", "c", "d", "e", "f", "g", "h", "i", "j", "k", "l", "m",
           "n", "o", "p", "q", "r", "s", "t", "u", "v", "w", "x", "y", "z">>

Digits == {"0", "1", "2", "3", "4", "5", "6", "7", "8", "9"}

Alphanumeric == Digits \cup {UPPER[k] : k \in DOMAIN UPPER} \cup {LOWER[k] : k \in DOMAIN LOWER}

\* The characters multispace0 / multispace1 accept.
Multispace == {" ", "\t", "\n", "\r"}

to_lowercase_char(c) ==
    IF \E k \in DOMAIN UPPER : UPPER[k] = c
    THEN LOWER[CHOOSE k \in DOMAIN UPPER : UPPER[k] = c]
    ELSE c

to_lowercase(s) == [k \in 1..Len(s) |-> to_lowercase_char(s[k])]

PErr(i) == [ok |-> FALSE, rest |-> i, out |-> <<>>]

POk(rest, out) == [ok |-> TRUE, rest |-> rest, out |-> out]

\* Length of the longest prefix of i whose characters are all in S
\* (member = TRUE) or all outside S (member = FALSE).
PrefixLen(i, S, member) ==
    CHOOSE n \in 0..Len(i) :
        /\ \A k \in 1..n : (i[k] \in S) = member
        /\ n = Len(i) \/ (i[n + 1] \in S) # member

Take(i, n) == POk(SliceFrom(i, n), SubSeq(i, 1, n))

multispace0(i) == Take(i, PrefixLen(i, Multispace, TRUE))

multispace1(i) == IF PrefixLen(i, Multispace, TRUE) = 0 THEN PErr(i) ELSE multispace0(i)

alphanumeric1(i) ==
    IF PrefixLen(i, Alphanumeric, TRUE) = 0 THEN PErr(i)
    ELSE Take(i, PrefixLen(i, Alphanumeric, TRUE))

\* take_till(|c| c == stop): everything before the first stop character,
\* the whole input if there is none; never fails.
take_till(i, stop) == Take(i, PrefixLen(i, {stop}, FALSE))

nom_tag(i, t) ==
    IF Len(i) >= Len(t) /\ SubSeq(i, 1, Len(t)) = t THEN Take(i, Len(t)) ELSE PErr(i)

tag_no_case(i, t) ==
    IF Len(i) >= Len(t) /\ to_lowercase(SubSeq(i, 1, Len(t))) = to_lowercase(t)
    THEN Take(i, Len(t))
    ELSE PErr(i)

char(i, c) == nom_tag(i, <<c>>)

SELECT == <<"S", "E", "L", "E", "C", "T">>

FROM == <<"f", "r", "o", "m">>

WHERE == <<"W", "H", "E", "R", "E">>

AND == <<"A", "N", "D">>

COUNT_ALL == <<"C", "O", "U", "N", "T", "(", "*", ")">>

ColumnName(s) == [tag |-> "ColumnName", name |-> s]

CountAll == [tag |-> "AggregateFunction", name |-> <<"C", "o", "u", "n", "t", "(", "A", "l", "l", ")">>]

AndCondition(column_name, value) == [column_name |-> column_name, value |-> value]

None == [some |-> FALSE, list |-> <<>>]

Some(list) == [some |-> TRUE, list |-> list]

\* alt((multispace1, tag(",")))
selection_delimiter(i) == IF multispace1(i).ok THEN multispace1(i) ELSE nom_tag(i, <<",">>)

\* alt((tag_no_case("COUNT(*)"), alphanumeric1))
raw_selection(i) ==
    IF tag_no_case(i, COUNT_ALL).ok THEN tag_no_case(i, COUNT_ALL) ELSE alphanumeric1(i)

\* delimited(selection_delimiter, raw_selection, selection_delimiter)
delimited_selection(i) ==
    LET a == selection_delimiter(i)
        b == raw_selection(a.rest)
        c == selection_delimiter(b.rest)
    IN  IF ~a.ok \/ ~b.ok \/ ~c.ok THEN PErr(i) ELSE POk(c.rest, b.out)

\* many_till(delimited_selection, tag_no_case("from")): try the end parser
\* first, then one more element; an element that fails is an error.
RECURSIVE many_till(_, _)
many_till(i, res) ==
    IF tag_no_case(i, FROM).ok THEN POk(tag_no_case(i, FROM).rest, res)
    ELSE IF ~delimited_selection(i).ok THEN PErr(i)
    ELSE IF Len(delimited_selection(i).rest) = Len(i) THEN PErr(i)
    ELSE many_till(delimited_selection(i).rest, Append(res, delimited_selection(i).out))

to_selection(raw) ==
    IF to_lowercase(raw) = to_lowercase(COUNT_ALL) THEN CountAll
    ELSE ColumnName(to_lowercase(raw))

parse_selection_list(i) ==
    LET r == many_till(i, <<>>)
    IN  IF ~r.ok THEN r
        ELSE POk(r.rest, [k \in 1..Len(r.out) |-> to_selection(r.out[k])])

\* delimited(multispace0, tag_no_case("AND"), multispace0)
and_separator(i) ==
    LET b == tag_no_case(multispace0(i).rest, AND)
    IN  IF ~b.ok THEN PErr(i) ELSE POk(multispace0(b.rest).rest, b.out)

\* separated_pair(take_till(' '), delimited(multispace0, '=', multispace0),
\*                delimited('\'', take_till('\''), '\''))
raw_condition(i) ==
    LET name == take_till(i, " ")
        eq == char(multispace0(name.rest).rest, "=")
        open == char(multispace0(eq.rest).rest, "'")
        value == take_till(open.rest, "'")
        close == char(value.rest, "'")
    IN  IF ~eq.ok \/ ~open.ok \/ ~close.ok THEN PErr(i)
        ELSE POk(close.rest, AndCondition(name.out, value.out))

\* The loop of separated_list1: stop, keeping what was parsed, when the
\* separator or the element after it does not match.
RECURSIVE separated_list1_loop(_, _)
separated_list1_loop(i, res) ==
    LET sep == and_separator(i)
        o == raw_condition(sep.rest)
    IN  IF ~sep.ok THEN POk(i, res)
        ELSE IF Len(sep.rest) = Len(i) THEN PErr(sep.rest)
        ELSE IF ~o.ok THEN POk(i, res)
        ELSE separated_list1_loop(o.rest, Append(res, o.out))

separated_list1(i) ==
    IF ~raw_condition(i).ok THEN PErr(i)
    ELSE separated_list1_loop(raw_condition(i).rest, <<raw_condition(i).out>>)

parse_where_conditions(i) ==
    LET w == tag_no_case(i, WHERE)
        sp == multispace1(w.rest)
    IN  IF ~w.ok \/ ~sp.ok THEN PErr(i) ELSE separated_list1(sp.rest)

\* opt(parse_where_conditions): a failure becomes None and consumes nothing.
opt_where(i) ==
    IF parse_where_conditions(i).ok
    THEN POk(parse_where_conditions(i).rest, Some(parse_where_conditions(i).out))
    ELSE POk(i, None)

\* delimited(multispace0, alphanumeric1, multispace0)
table_name(i) ==
    LET b == alphanumeric1(multispace0(i).rest)
    IN  IF ~b.ok THEN PErr(i) ELSE POk(multispace0(b.rest).rest, b.out)

NoQuery == [text |-> <<>>, query |-> [selection_list |-> <<>>, from_table |-> <<>>,
                                      and_conditions |-> None]]

QueryIdle ==
    /\ raw_query = NoQuery
    /\ input = <<>>
    /\ query_pc = "idle"
    /\ selection_list = <<>>
    /\ from_table = <<>>
    /\ conditions = None
    /\ query_out = "Idle"

\* A `?` on a parser result: on failure parse_query returns the error.
QueryStep(r, next) ==
    /\ query_pc' = IF r.ok THEN next ELSE "done"
    /\ query_out' = IF r.ok THEN query_out ELSE "Err"
    /\ input' = IF r.ok THEN r.rest ELSE input
    /\ UNCHANGED <<overflow_checks, thresholds, varint_vars, rec_vars, db_vars, raw_query>>

\* let (input, _) = multispace0(input)?;
LeadingSpace ==
    /\ query_pc = "start"
    /\ QueryStep(multispace0(input), "select")
    /\ UNCHANGED <<selection_list, from_table, conditions>>

\* let (input, _) = tag_no_case("SELECT")(input)?;
SelectKeyword ==
    /\ query_pc = "select"
    /\ QueryStep(tag_no_case(input, SELECT), "selection")
    /\ UNCHANGED <<selection_list, from_table, conditions>>

\* let (input, selection_list) = parse_selection_list(input)?;
SelectionList ==
    /\ query_pc = "selection"
    /\ QueryStep(parse_selection_list(input), "table")
    /\ selection_list' = IF parse_selection_list(input).ok
                          THEN parse_selection_list(input).out ELSE selection_list
    /\ UNCHANGED <<from_table, conditions>>

\* let (input, from_table) = delimited(multispace0, alphanumeric1, multispace0)(input)?;
FromTable ==
    /\ query_pc = "table"
    /\ QueryStep(table_name(input), "where")
    /\ from_table' = IF table_name(input).ok THEN table_name(input).out ELSE from_table
    /\ UNCHANGED <<selection_list, conditions>>

\* let (input, conditions) = opt(parse_where_conditions)(input)?;
WhereConditions ==
    /\ query_pc = "where"
    /\ QueryStep(opt_where(input), "return")
    /\ conditions' = opt_where(input).out
    /\ UNCHANGED <<selection_list, from_table>>

\* let (input, _) = multispace0(input)?;  Ok((input, Query { .. }))
ReturnQuery ==
    /\ query_pc = "return"
    /\ query_pc' = "done"
    /\ query_out' = "Ok"
    /\ input' = multispace0(input).rest
    /\ UNCHANGED <<overflow_checks, thresholds, varint_vars, rec_vars, db_vars, raw_query,
                   selection_list, from_table, conditions>>

(***************************************************************************)
(* Database files the program is run on: a 100-byte header and b-tree      *)
(* pages written as the format lays them out.                              *)
(***************************************************************************)
MaxCells == 2

PageSize == 512

Seg(at, bytes) == [at |-> at, bytes |-> bytes]

\* A varint of one or two bytes.
EncodeVarint(n) == IF n < 128 THEN <<n>> ELSE <<128 + (n \div 128), n % 128>>

be16(n) == <<n \div 256, n % 256>>

\* The file header: page size at 16..17, reserved space at 20, page count at 28..31.
HeaderSegs(page_size_field, reserved, page_count) ==
    << Seg(16, be16(page_size_field)), Seg(20, <<reserved>>),
       Seg(28, <<0, 0, 0, page_count>>) >>

\* A table-leaf cell: payload size, row id, the inline bytes and, when the
\* payload spills, the number of its first overflow page.
LeafCell(row) ==
    EncodeVarint(Len(row.payload)) \o EncodeVarint(row.row_id)
    \o SubSeq(row.payload, 1, row.inline)
    \o (IF row.inline < Len(row.payload) THEN <<0, 0, 0, row.overflow_page>> ELSE <<>>)

\* Cells are laid out from the end of the page backwards.
RECURSIVE CellOffsets(_, _, _)
CellOffsets(cells, i, end) ==
    IF i > Len(cells) THEN <<>>
    ELSE <<end - Len(cells[i])>> \o CellOffsets(cells, i + 1, end - Len(cells[i]))

RECURSIVE Flatten(_)
Flatten(seqs) == IF seqs = <<>> THEN <<>> ELSE Head(seqs) \o Flatten(Tail(seqs))

\* A b-tree page at file offset `base` with size `size`: the page header at
\* base + hdr (hdr is 100 on page 1), the cell pointer array, the cells.
PageSegs(base, hdr, size, tag, extra, cells) ==
    LET offs == CellOffsets(cells, 1, size)
        first == IF cells = <<>> THEN size % 65536 ELSE offs[Len(offs)]
    IN  << Seg(base + hdr,
               <<tag, 0, 0>> \o be16(Len(cells)) \o be16(first) \o <<0>> \o extra
               \o Flatten([i \in 1..Len(cells) |-> be16(offs[i])])) >>
        \o [i \in 1..Len(cells) |-> Seg(base + offs[i], cells[i])]

LeafPageSegs(base, hdr, size, rows) ==
    PageSegs(base, hdr, size, 13, <<>>, [i \in 1..Len(rows) |-> LeafCell(rows[i])])

\* An interior table page: cells of child page number and key, and the
\* right-most child in the page header.
InteriorPageSegs(base, hdr, size, children, rightmost) ==
    PageSegs(base, hdr, size, 5, <<0, 0, 0, rightmost>>,
             [i \in 1..Len(children) |->
                 <<0, 0, 0, children[i].page>> \o EncodeVarint(children[i].key)])

\* An overflow page: the next page of the chain, then payload bytes.
OverflowPageSegs(base, next, content) == << Seg(base, <<0, 0, 0, next>> \o content) >>

\* Record payloads stored in the files: one Int8 column; an Int8 and a
\* one-letter String; an Int8 and a 40-letter String.
Letters(n) == [i \in 1..n |-> 97 + (i % 26)]

RowPayloads == { <<2, 1, 7>>, <<3, 1, 15, 7, 116>>, <<3, 1, 93, 7>> \o Letters(40) }

Inline(id, payload) ==
    [row_id |-> id, payload |-> payload, inline |-> Len(payload), overflow_page |-> 0]

\* Up to MaxCells rows with ascending row ids 100, 200, ...
RowLists ==
    UNION { { [i \in 1..n |-> Inline(100 * i, f[i])] : f \in [1..n -> RowPayloads] }
            : n \in 0..MaxCells }

\* A file whose root page is a table leaf holding `rows`; `pages` b-tree
\* leaf pages in all, the header declaring `page_count` of them.
LeafFile(rows, size_field, size, reserved, page_count, pages) ==
    [len |-> pages * size,
     segs |-> HeaderSegs(size_field, reserved, page_count)
              \o LeafPageSegs(0, 100, size, rows)
              \o (IF pages >= 2 THEN LeafPageSegs(size, 0, size, <<Inline(1, <<2, 1, 9>>)>>)
                  ELSE <<>>),
     tree |-> [kind |-> "leaf", rows |-> rows]]

\* The local-payload arithmetic of the format for usable size u.
UsableX(u) == u - 35

MinLocal(u) == ((u - 12) * 32) \div 255 - 23

LocalBytes(u, p) ==
    IF p <= UsableX(u) THEN p
    ELSE LET k == MinLocal(u) + ((p - MinLocal(u)) % (u - 4))
         IN  IF k <= UsableX(u) THEN k ELSE MinLocal(u)

\* A file whose one row has a payload of p bytes, more than fit on the leaf:
\* the local part on page 1, the rest on the overflow page 2.
SpilledPayload(p) == <<4, 0, 0, 0>> \o [i \in 1..(p - 4) |-> (i * 7) % 251]

OverflowFile(p) ==
    LET payload == SpilledPayload(p)
        local == LocalBytes(PageSize, p)
        row == [row_id |-> 100, payload |-> payload, inline |-> local, overflow_page |-> 2]
    IN  [len |-> 2 * PageSize,
         segs |-> HeaderSegs(PageSize, 0, 2)
                  \o LeafPageSegs(0, 100, PageSize, <<row>>)
                  \o OverflowPageSegs(PageSize, 0, SubSeq(payload, local + 1, p)),
         tree |-> [kind |-> "overflow", rows |-> <<row>>]]

\* A two-level table: an interior root with the leaf children 2 and 3.
InteriorFile(left, right) ==
    [len |-> 3 * PageSize,
     segs |-> HeaderSegs(PageSize, 0, 3)
              \o InteriorPageSegs(0, 100, PageSize,
                                  <<[page |-> 2, key |-> left[Len(left)].row_id]>>, 3)
              \o LeafPageSegs(PageSize, 0, PageSize, left)
              \o LeafPageSegs(2 * PageSize, 0, PageSize, right),
     tree |-> [kind |-> "interior", rows |-> left \o right]]

LongRow(id) == Inline(id, <<3, 1, 93, 7>> \o Letters(40))

Files ==
    { LeafFile(rows, PageSize, PageSize, reserved, page_count, 1) :
        rows \in RowLists, reserved \in {0, 8}, page_count \in 0..2 }
    \cup { LeafFile(rows, PageSize, PageSize, 0, 2, 2) : rows \in RowLists }
    \cup { [LeafFile(<<LongRow(100)>>, PageSize, PageSize, 0, 2, 1) EXCEPT !.len = 2 * PageSize] }
    \cup { LeafFile(<<LongRow(100)>>, 1, 65536, reserved, 1, 1) : reserved \in {0, 8} }
    \cup { OverflowFile(p) : p \in {UsableX(PageSize) + 1, 600} }
    \cup { InteriorFile(<<LongRow(100)>>, <<LongRow(200), LongRow(300)>>),
           InteriorFile(<<LongRow(100), LongRow(200)>>, <<LongRow(300)>>) }
    \cup { [len |-> n, segs |-> HeaderSegs(PageSize, r, 1), tree |-> [kind |-> "none"]] :
             n \in {0, 99, 100, 107}, r \in {0, 8} }

Commands == {".dbinfo", ".tables"}

InitDb ==
    /\ overflow_checks \in BOOLEAN
    /\ VarintIdle
    /\ RecIdle
    /\ QueryIdle
    /\ thresholds = NoThresholds
    /\ file \in Files
    /\ command \in Commands
    /\ file_pos = 0
    /\ io_log = <<>>
    /\ db_pc = "open"
    /\ database = NoDatabase
    /\ page = NoPage
    /\ cell_pointers = <<>>
    /\ built = <<>>
    /\ page_i = 0
    /\ db_out = Running

RecRunning == db_pc = "records"

NextDb ==
    \/ Open
    \/ SeekRootPage
    \/ FetchCellPointers
    \/ BuildPayloads
    \/ SeekNextPage
    \/ (RecRunning /\ RecFor)
    \/ (RecRunning /\ RecHeaderLen)
    \/ (RecRunning /\ RecSerialType)
    \/ (RecRunning /\ RecValue)
    \/ ReadRecordsReturn

SpecDb == InitDb /\ [][NextDb]_vars

(***************************************************************************)
(* build_records called on payloads made of a header-length byte, one or   *)
(* two header bytes and a body.                                            *)
(***************************************************************************)
MaxHeaderLen == 3
MaxBody == 8

\* Header bytes after the length: every one-byte code 0..15, and 129, which
\* opens a two-byte varint.  Two-byte headers draw from a smaller set.
HeaderBytes == 0..15 \cup {129}

PairBytes == {1, 3, 5, 6, 11, 15, 129}

Headers == {<<c>> : c \in HeaderBytes} \cup {<<c, d>> : c \in PairBytes, d \in PairBytes}

BodyPatterns == { <<255, 255, 255, 255, 255, 255, 255, 255, 255>>,
                  <<65, 128, 0, 255, 1, 2, 3, 4, 5>> }

Bodies == { SubSeq(b, 1, n) : b \in BodyPatterns, n \in 0..MaxBody }

PayloadBytes ==
    { <<hl>> \o hdr \o body :
        hl \in 0..MaxHeaderLen,
        hdr \in Headers,
        body \in Bodies }

\* A well-formed one-column record (Int8 7), decoded before the payload under test.
GoodPayload == <<2, 1, 7>>

AsPayload(bytes, id) ==
    [payload_size |-> Len(bytes), row_id |-> U64FromNat(id), payload_bytes |-> bytes]

\* Payloads decoded as the second of two: an Int24 or a reserved code, with
\* and without body, under a right and a wrong header length.
SecondPayloadBytes ==
    { <<hl, c>> \o SubSeq(<<200, 0, 0>>, 1, n) : hl \in 1..2, c \in {3, 11}, n \in {0, 3} }

PayloadLists ==
    { <<AsPayload(b, 1)>> : b \in PayloadBytes }
    \cup { <<AsPayload(GoodPayload, 1), AsPayload(b, 2)>> : b \in SecondPayloadBytes }

InitRecord ==
    /\ overflow_checks \in BOOLEAN
    /\ VarintIdle
    /\ DbIdle
    /\ QueryIdle
    /\ thresholds = NoThresholds
    /\ payloads \in PayloadLists
    /\ records = <<>>
    /\ rec_pc = "for"
    /\ row_id = U64Zero
    /\ payload_cursor = NoCursor
    /\ record_header_byte_count = U64Zero
    /\ record_header_bytes_remaining = U64Zero
    /\ column_serial_type = U64Zero
    /\ serial_types = <<>>
    /\ serial_values = <<>>
    /\ rec_out = "Running"

NextRecord == RecFor \/ RecHeaderLen \/ RecSerialType \/ RecValue

SpecRecord == InitRecord /\ [][NextRecord]_vars

(***************************************************************************)
(* The varint codec driven as in its tests: repeated calls over one source.*)
(***************************************************************************)

Streams == (UNION {[1..n -> ByteVals] : n \in 0..MaxStream}) \cup BoundaryStreams

InitVarint ==
    /\ overflow_checks \in BOOLEAN
    /\ stream \in Streams
    /\ cursor = 0
    /\ varint_out = NoVarint
    /\ RecIdle
    /\ DbIdle
    /\ QueryIdle
    /\ thresholds = NoThresholds

CallVarint(api, r) ==
    /\ varint_out' = [api |-> api, kind |-> r.kind, value |-> r.value,
                      bytes_read |-> r.bytes_read, at |-> cursor]
    /\ cursor' = cursor + r.bytes_read
    /\ UNCHANGED <<overflow_checks, thresholds, query_vars, stream, rec_vars, db_vars>>

\* let (num, bytes_read) = parse_varint(&a[total_bytes_read..]);
ParseVarintSlice ==
    /\ varint_out.kind # "Panic"
    /\ cursor <= Len(stream)
    /\ CallVarint("slice", parse_varint(SliceFrom(stream, cursor)))

\* let (num, bytes_read) = parse_varint_from_reader(&mut c);
ParseVarintReader ==
    /\ varint_out.kind # "Panic"
    /\ cursor <= Len(stream)
    /\ CallVarint("reader", parse_varint_from_reader(SliceFrom(stream, cursor)))

NextVarint == ParseVarintSlice \/ ParseVarintReader

SpecVarint == InitVarint /\ [][NextVarint]_vars

(***************************************************************************)
(* Varint claims.                                                          *)
(***************************************************************************)
\* What the format prescribes for the bytes `rest` of a source.
RECURSIVE FirstClear(_, _)
FirstClear(rest, i) ==
    IF i > Len(rest) \/ i > 8 THEN 0
    ELSE IF rest[i] < 128 THEN i ELSE FirstClear(rest, i + 1)

VarintComplete(rest) == FirstClear(rest, 1) # 0 \/ Len(rest) >= 9

VarintLen(rest) == IF FirstClear(rest, 1) # 0 THEN FirstClear(rest, 1) ELSE 9

RECURSIVE VarintBits(_, _, _)
VarintBits(rest, i, n) ==
    IF i > n THEN <<>>
    ELSE (IF i = 9 THEN BitsOf(rest[i], 8) ELSE BitsOf(rest[i] % 128, 7))
         \o VarintBits(rest, i + 1, n)

PadBits(bits, width) == [i \in 1..(width - Len(bits)) |-> 0] \o bits

VarintCalled == varint_out.kind # "none"

VarintSource == SliceFrom(stream, varint_out.at)

\* C1: on every source that holds a whole varint, both parse_varint and
\* parse_varint_from_reader consume the bytes up to the first one with a clear
\* high bit (9 if none of the first 8 is clear) and return the big-endian
\* concatenation of the low 7 bits of the first up-to-8 bytes and all 8 bits
\* of a 9th byte, with bytes_read in 1..9.
C1_VarintValue ==
    (VarintCalled /\ VarintComplete(VarintSource)) =>
        /\ varint_out.kind = "Ok"
        /\ varint_out.bytes_read = VarintLen(VarintSource)
        /\ varint_out.bytes_read \in 1..9
        /\ U64Bits(varint_out.value)
             = PadBits(VarintBits(VarintSource, 1, VarintLen(VarintSource)), 64)

\* C2: when the source ends before the varint terminates, decoding returns
\* an error value to its caller (no panic, no value).
C2_ShortReadIsError ==
    (VarintCalled /\ ~VarintComplete(VarintSource)) => varint_out.kind = "Err"

(***************************************************************************)
(* Record claims.                                                          *)
(***************************************************************************)
Last(seq) == seq[Len(seq)]

\* The serial-type table of the format: whether type t is the one of code n.
\* For n >= 12 the size s of a Blob satisfies 2s + 12 = n, of a String 2s + 13 = n.
TableTags == <<"Null", "Int8", "Int16", "Int24", "Int32", "Int48", "Int64",
               "Float", "Zero", "One">>

Doubled(size, plus) == U64Add(U64Add(size, size).val, U64FromNat(plus))

InTable(n, t) ==
    IF U64IsSmall(n) /\ U64ToNat(n) <= 9
    THEN t = [tag |-> TableTags[U64ToNat(n) + 1], size |-> U64Zero]
    ELSE \/ t.tag = "Blob" /\ ~U64Add(t.size, t.size).overflow
            /\ Doubled(t.size, 12) = [val |-> n, overflow |-> FALSE]
         \/ t.tag = "String" /\ ~U64Add(t.size, t.size).overflow
            /\ Doubled(t.size, 13) = [val |-> n, overflow |-> FALSE]

ReservedCodes == {10, 11}

CodeIn(n, codes) == U64IsSmall(n) /\ U64ToNat(n) \in codes

\* A step of the type loop that consumed a serial-type varint.
ReadsSerialType == rec_pc = "types" /\ payload_cursor'.pos > payload_cursor.pos

\* C3: SerialType::from maps codes 0..9 to Null, Int8, Int16, Int24, Int32,
\* Int48, Int64, Float64, ConstZero, ConstOne, every even code n >= 12 to
\* Blob((n-12)/2) and every odd code n >= 13 to String((n-13)/2), and is
\* defined on each of them: whenever the type loop reads such a code, the
\* type it pushes is the one of the table.
C3_SerialTypeTable ==
    [][(ReadsSerialType /\ ~CodeIn(column_serial_type', ReservedCodes))
         => /\ Len(serial_types') = Len(serial_types) + 1
            /\ SubSeq(serial_types', 1, Len(serial_types)) = serial_types
            /\ InTable(column_serial_type', serial_types'[Len(serial_types')])]_vars

C3_Witness ==
    /\ Len(serial_types) = 2
    /\ serial_types[1] = [tag |-> "String", size |-> U64FromNat(1)]
    /\ serial_types[2] = [tag |-> "Int48", size |-> U64Zero]
    /\ rec_pc = "values"

IntTags == {"Int8", "Int16", "Int24", "Int32", "Int48", "Int64"}

\* Width in bytes of the Rust integer a value of the type is returned in.
ResultWidth(tag) ==
    CASE tag = "Int8" -> 1
      [] tag = "Int16" -> 2
      [] tag \in {"Int24", "Int32"} -> 4
      [] OTHER -> 8

\* Two's-complement sign extension of big-endian bytes to `width` bytes.
SignExtend(field, width) ==
    [i \in 1..(width - Len(field)) |-> IF field[1] >= 128 THEN 255 ELSE 0] \o field

\* The record-body bytes the value parsed last was read from.
LastField ==
    SubSeq(payload_cursor.bytes,
           payload_cursor.pos - FieldWidth(serial_types[Len(serial_values)]) + 1,
           payload_cursor.pos)

\* C5: every integer value SerialValue::parse returns is the two's-complement
\* value of its big-endian field sign-extended to the result width, so a
\* field whose top bit is set decodes to a negative number.
C5_SignExtended ==
    (rec_pc = "values" /\ serial_values # <<>> /\ Last(serial_values).tag \in IntTags) =>
        /\ Last(serial_values).bytes
             = SignExtend(LastField, ResultWidth(Last(serial_values).tag))
        /\ LastField[1] >= 128 => Last(serial_values).bytes[1] >= 128

\* Value of a varint of at most 4 bytes at the start of `rest`.
RECURSIVE VarintNat(_, _, _)
VarintNat(rest, i, acc) ==
    IF i > VarintLen(rest) THEN acc ELSE VarintNat(rest, i + 1, acc * 128 + (rest[i] % 128))

IsReserved(rest) ==
    \E c \in ReservedCodes :
        PadBits(VarintBits(rest, 1, VarintLen(rest)), 64) = PadBits(BitsOf(c, 8), 64)

\* Where the serial-type varints of a record header end relative to the
\* declared header length hl: "exact", "overshoot", or the walk stops early
\* at a "short" source or a "reserved" code.
RECURSIVE HeaderWalk(_, _, _)
HeaderWalk(bytes, p, hl) ==
    LET rest == SliceFrom(bytes, p) IN
    IF ~VarintComplete(rest) THEN "short"
    ELSE IF IsReserved(rest) THEN "reserved"
    ELSE IF p + VarintLen(rest) = hl THEN "exact"
    ELSE IF p + VarintLen(rest) > hl THEN "overshoot"
    ELSE HeaderWalk(bytes, p + VarintLen(rest), hl)

HeaderShape(bytes) ==
    IF ~VarintComplete(bytes) \/ VarintLen(bytes) > 4 THEN "short"
    ELSE IF VarintNat(bytes, 1, 0) <= VarintLen(bytes) THEN "empty"
    ELSE HeaderWalk(bytes, VarintLen(bytes), VarintNat(bytes, 1, 0))

\* C4: a record whose header holds serial-type code 10 or 11 ends decoding
\* with an error returned to the caller.
C4_ReservedCodeIsError ==
    (CodeIn(column_serial_type, ReservedCodes) /\ HeaderShape(payload_cursor.bytes) = "reserved")
    => rec_out = "Err"

\* C6: a record whose serial-type varints do not end exactly on the declared
\* header length (the last one overshoots it, or the length leaves no byte
\* for serial types) ends decoding with an error returned to the caller.
C6_HeaderMismatchIsError ==
    (rec_pc = "done" /\ rec_out # "Ok"
        /\ HeaderShape(payload_cursor.bytes) \in {"overshoot", "empty"})
    => rec_out = "Err"

(***************************************************************************)
(* Database claims.                                                        *)
(***************************************************************************)
ReservedSpaceSet == file.len >= 100 /\ FileByte(file, 20) # 0

\* C7: opening a file whose header byte 20 is nonzero fails with an error
\* after the read of the 100-byte header alone: no seek, no page-header read
\* and no cell read is made.
C7_ReservedSpaceRejected ==
    (db_pc # "open" /\ ReservedSpaceSet) =>
        /\ db_pc = "done"
        /\ db_out.kind = "Err"
        /\ io_log = <<IoRead(0, 100)>>
        /\ page = NoPage
        /\ cell_pointers = <<>>
        /\ built = <<>>

C7_Witness ==
    /\ db_pc = "done"
    /\ ReservedSpaceSet
    /\ file.len = PageSize
    /\ file.tree.kind = "leaf" /\ Len(file.tree.rows) = 2
    /\ db_out = Ended("Err", "Unhandled reserved_end_of_page_space")

\* C8: for a leaf cell whose payload size P exceeds X = U - 35, the payload
\* reader returns exactly P bytes, the local part followed by the bytes of
\* the overflow pages, equal to the original payload.
C8_OverflowReconstructed ==
    (db_pc = "done" /\ file.tree.kind = "overflow"
        /\ Len(file.tree.rows[1].payload) > UsableX(PageSize)) =>
        /\ Len(built) = 1
        /\ built[1].payload_size = Len(file.tree.rows[1].payload)
        /\ built[1].payload_bytes = file.tree.rows[1].payload

\* C9: walking a table whose root is an interior page with leaf children
\* yields every record of the tree once, in ascending row-id order, and ends.
C9_WalkYieldsAllRows ==
    (db_pc = "done" /\ file.tree.kind = "interior") =>
        /\ db_out.kind = "Ok"
        /\ [i \in 1..Len(records) |-> records[i].row_id]
             = [i \in 1..Len(file.tree.rows) |-> U64FromNat(file.tree.rows[i].row_id)]

(***************************************************************************)
(* The queries parse_query is called on: every derivation of the grammar   *)
(*   SELECT selection-list FROM table [WHERE cond {AND cond}]              *)
(* over a few names, written with the keywords in upper, lower or mixed    *)
(* case and with the whitespace between tokens varied.                     *)
(***************************************************************************)
MaxColumns == 2

MaxConditions == 2

ColumnNames == << <<"i", "d">>, <<"n", "a", "m", "e">>, <<"k", "3">> >>

TableNames == { <<"t", "1">> }

WhereList == << AndCondition(<<"c">>, <<"x", " ", "y">>),
                AndCondition(<<"d", "2">>, <<"z">>),
                AndCondition(<<"e">>, <<>>) >>

Injective(f) == \A a, b \in DOMAIN f : f[a] = f[b] => a = b

ColumnLists ==
    UNION { { [k \in 1..n |-> ColumnName(ColumnNames[f[k]])] :
                f \in {g \in [1..n -> 1..MaxColumns] : Injective(g)} } : n \in 1..MaxColumns }

Queries ==
    [selection_list : {<<CountAll>>} \cup ColumnLists,
     from_table : TableNames,
     and_conditions : {None} \cup {Some(SubSeq(WhereList, 1, n)) : n \in 1..MaxConditions}]

OptionalSpace == {<<>>, <<" ">>}

Styles ==
    [kw : {"upper", "lower", "mixed"},
     gap : {<<" ">>, <<" ", " ">>, <<"\t">>},
     pad : OptionalSpace,
     before_comma : OptionalSpace, after_comma : OptionalSpace,
     before_eq : OptionalSpace, after_eq : OptionalSpace]

to_uppercase_char(c) ==
    IF \E k \in DOMAIN LOWER : LOWER[k] = c
    THEN UPPER[CHOOSE k \in DOMAIN LOWER : LOWER[k] = c]
    ELSE c

Keyword(word, kw) ==
    [k \in 1..Len(word) |->
        IF kw = "upper" \/ (kw = "mixed" /\ k = 1) THEN to_uppercase_char(word[k])
        ELSE to_lowercase_char(word[k])]

RECURSIVE Join(_, _)
Join(parts, sep) ==
    IF Len(parts) = 0 THEN <<>>
    ELSE IF Len(parts) = 1 THEN parts[1]
    ELSE parts[1] \o sep \o Join(SliceFrom(parts, 1), sep)

WrittenSelection(list, st) ==
    Join([k \in 1..Len(list) |->
            IF list[k] = CountAll THEN Keyword(COUNT_ALL, st.kw) ELSE list[k].name],
         st.before_comma \o <<",">> \o st.after_comma)

WrittenCondition(c, st) ==
    c.column_name \o st.before_eq \o <<"=">> \o st.after_eq \o <<"'">> \o c.value \o <<"'">>

WrittenWhere(cs, st) ==
    IF ~cs.some THEN <<>>
    ELSE st.gap \o Keyword(WHERE, st.kw) \o st.gap
         \o Join([k \in 1..Len(cs.list) |-> WrittenCondition(cs.list[k], st)],
                 st.gap \o Keyword(AND, st.kw) \o st.gap)

Written(q, st) ==
    st.pad \o Keyword(SELECT, st.kw) \o st.gap \o WrittenSelection(q.selection_list, st)
    \o st.gap \o Keyword(FROM, st.kw) \o st.gap \o q.from_table
    \o WrittenWhere(q.and_conditions, st) \o st.pad

RawQueries == { [text |-> Written(q, st), query |-> q] : q \in Queries, st \in Styles }

InitQuery ==
    /\ overflow_checks \in BOOLEAN
    /\ VarintIdle
    /\ RecIdle
    /\ DbIdle
    /\ thresholds = NoThresholds
    /\ raw_query \in RawQueries
    /\ input = raw_query.text
    /\ query_pc = "start"
    /\ selection_list = <<>>
    /\ from_table = <<>>
    /\ conditions = None
    /\ query_out = "Running"

NextQuery ==
    \/ LeadingSpace
    \/ SelectKeyword
    \/ SelectionList
    \/ FromTable
    \/ WhereConditions
    \/ ReturnQuery

SpecQuery == InitQuery /\ [][NextQuery]_vars

\* build_payloads has returned, or has failed, on a table-leaf root whose
\* cell pointers were all read and whose cells all hold their payload inline.
InlineLeafRead ==
    /\ file.tree.kind = "leaf"
    /\ page.page_type = "LeafTable"
    /\ Len(cell_pointers) = Len(file.tree.rows)
    /\ \A i \in 1..Len(file.tree.rows) :
           Len(file.tree.rows[i].payload) <= UsableX(database.page_size)
    /\ db_pc \in {"pages", "records", "done"}

PayloadOf(row) ==
    [payload_size |-> Len(row.payload), row_id |-> U64FromNat(row.row_id),
     payload_bytes |-> row.payload]

\* C12: for a leaf page whose cells all have P <= X = U - 35, build_payloads
\* succeeds and returns, in cell-pointer order, for every cell the triple
\* (P, row id, the P bytes after the row id).
C12_InlinePayloadsBuilt ==
    InlineLeafRead =>
        built = [i \in 1..Len(file.tree.rows) |-> PayloadOf(file.tree.rows[i])]

(***************************************************************************)
(* Texts that violate the grammar, each made from a query of the grammar   *)
(* by one change: the closing quote of the last literal dropped, the FROM  *)
(* keyword dropped, the selection list dropped, or text added after the    *)
(* table name or after the final condition.                                *)
(***************************************************************************)
PlainStyles == [kw : {"upper", "lower"}, gap : {<<" ">>, <<" ", " ">>}, pad : {<<>>},
                before_comma : {<<>>}, after_comma : {<<" ">>},
                before_eq : {<<" ">>}, after_eq : OptionalSpace]

\* Text left behind a complete query: a word after whitespace, or a ';'.
Garbage == { <<" ", "j", "k">>, <<";">>, <<" ", ";">> }

WithoutLast(s) == SubSeq(s, 1, Len(s) - 1)

Unterminated(q, st) == WithoutLast(Written(q, st))

MissingFrom(q, st) ==
    st.pad \o Keyword(SELECT, st.kw) \o st.gap \o WrittenSelection(q.selection_list, st)
    \o st.gap \o q.from_table \o WrittenWhere(q.and_conditions, st)

EmptySelection(q, st) ==
    st.pad \o Keyword(SELECT, st.kw) \o st.gap \o Keyword(FROM, st.kw) \o st.gap
    \o q.from_table \o WrittenWhere(q.and_conditions, st)

Invalid(text, q, violation) == [text |-> text, query |-> q, violation |-> violation]

InvalidQueries ==
    { Invalid(Unterminated(q, st), q, "unterminated literal") :
        q \in {r \in Queries : r.and_conditions.some}, st \in PlainStyles }
    \cup { Invalid(MissingFrom(q, st), q, "missing FROM") : q \in Queries, st \in PlainStyles }
    \cup { Invalid(EmptySelection(q, st), q, "empty selection list") :
              q \in Queries, st \in PlainStyles }
    \cup UNION { { Invalid(Written(q, st) \o g, q,
                           IF q.and_conditions.some THEN "text after the final condition"
                           ELSE "text after the table name") :
                      q \in Queries, st \in PlainStyles } : g \in Garbage }

InitInvalidQuery ==
    /\ overflow_checks \in BOOLEAN
    /\ VarintIdle
    /\ RecIdle
    /\ DbIdle
    /\ thresholds = NoThresholds
    /\ raw_query \in InvalidQueries
    /\ input = raw_query.text
    /\ query_pc = "start"
    /\ selection_list = <<>>
    /\ from_table = <<>>
    /\ conditions = None
    /\ query_out = "Running"

SpecInvalidQuery == InitInvalidQuery /\ [][NextQuery]_vars

(***************************************************************************)
(* Query parser claims.                                                    *)
(***************************************************************************)
\* C10: every query of the grammar, whatever the letter case of its keywords
\* and the whitespace between its tokens (none included, around ',' and
\* '='), is parsed successfully, with nothing left unconsumed, into the
\* selection list, table name and conditions it was written from.
C10_GrammarAccepted ==
    query_pc = "done" =>
        /\ query_out = "Ok"
        /\ input = <<>>
        /\ selection_list = raw_query.query.selection_list
        /\ from_table = raw_query.query.from_table
        /\ conditions = raw_query.query.and_conditions

\* C11: on a text that violates the grammar (an unterminated string literal,
\* a missing FROM, an empty selection list, text left after the table name or
\* after the final condition) parse_query returns an error, never Ok.
C11_ViolationIsError ==
    query_pc = "done" => query_out = "Err"

(***************************************************************************)
(* The overflow arithmetic of build_payloads on its own: every page size   *)
(* the format allows, and payload sizes on both sides of m and x.          *)
(***************************************************************************)
PageSizes == { Pow2(n) : n \in 9..16 }

PayloadSizes(u) ==
    { U32FromNat(n) : n \in {0, 1, MinLocal(u) - 1, MinLocal(u), MinLocal(u) + 1,
                             UsableX(u) - 1, UsableX(u), UsableX(u) + 1, u, 2 * u} }
    \cup { <<LimbBase - 1, LimbBase - 1>> }

InitThresholds ==
    /\ overflow_checks \in BOOLEAN
    /\ VarintIdle
    /\ RecIdle
    /\ DbIdle
    /\ QueryIdle
    /\ thresholds \in { [NoThresholds EXCEPT !.pc = "start", !.u = U32FromNat(u), !.p = p,
                                             !.out = "Running"] :
                            u \in PageSizes, p \in UNION { PayloadSizes(v) : v \in PageSizes } }

\* let x = u - 35; let m = ((u - 12) * 32 / 255) - 23; let _k = m + ((p - m) % (u - 4));
ComputeThresholds ==
    /\ thresholds.pc = "start"
    /\ thresholds' = Computed(thresholds.u, thresholds.p, overflow_checks)
    /\ UNCHANGED <<overflow_checks, varint_vars, rec_vars, db_vars, query_vars>>

NextThresholds == ComputeThresholds

SpecThresholds == InitThresholds /\ [][NextThresholds]_vars

\* C13: for every page size u that is a power of two in 512..65536 and every
\* payload size p, p < m included, the u32 computations of x, m and k neither
\* go below zero nor above 2^32 - 1: nothing wraps and nothing panics.
C13_ThresholdsInRange ==
    thresholds.pc = "done" => (~thresholds.wrapped /\ thresholds.out = "Ok")

====
